---- MODULE Spec2Model ----
(***************************************************************************)
(* Model of the Fetcher HTTP client (src/src/Fetcher.ts): the hook         *)
(* registry, the option/header merge and the request pipeline of a verb    *)
(* call.  A call is cut into the segments that run between two awaits of   *)
(* Fetcher.request; each segment is one action.                            *)
(***************************************************************************)
EXTENDS Integers, Sequences, FiniteSets, TLC

(***************************************************************************)
(* Bounds of the model.                                                    *)
(***************************************************************************)
MaxHooks == 2

\* the client instances and the call slots, in a fixed order.  A slot holds
\* one verb call from its start to its outcome; the next call reuses it.
InstanceSeq == <<"f1", "f2">>
CallSeq == <<"c1", "c2">>
Instances == {InstanceSeq[k] : k \in DOMAIN InstanceSeq}
CallIds == {CallSeq[k] : k \in DOMAIN CallSeq}
\* heap addresses of hook arrays: two fields per instance, one loop per
\* call slot, the two arrays of the constructing code, and two addresses
\* for the arrays an operation allocates
ArrayIds == 1..(2 * Len(InstanceSeq) + Len(CallSeq) + 4)

(***************************************************************************)
(* JavaScript values.                                                      *)
(***************************************************************************)
Null == "null"
NoValue == [tag |-> "none"]
EmptyObject == [k \in {} |-> ""]

\* { ...a, ...b } on plain objects: own keys of both, b wins on collision
Spread(a, b) == [k \in (DOMAIN a) \cup (DOMAIN b) |->
                    IF k \in DOMAIN b THEN b[k] ELSE a[k]]

\* a HeadersInit value: absent, a plain object, or a Headers instance
NoHeaders == [kind |-> "undefined", map |-> EmptyObject]
PlainHeaders(m) == [kind |-> "object", map |-> m]
HeadersInstance(m) == [kind |-> "Headers", map |-> m]

\* the own enumerable properties that `...(h as Record<string, string>)`
\* copies: the keys of a plain object; undefined and a Headers instance
\* (whose entries are internal, not properties) contribute nothing
OwnProps(h) == IF h.kind = "object" THEN h.map ELSE EmptyObject

\* a RequestInit: its headers member and its other members
RequestInit(h, r) == [headers |-> h, rest |-> r]
EmptyInit == RequestInit(NoHeaders, EmptyObject)

(***************************************************************************)
(* Callables handed to the client.  A hook is known by its identity; what  *)
(* it does when invoked is given by the operators below.                   *)
(***************************************************************************)
BeforeHookIds == {"hookForm", "hookLower", "hookThrow"}
AfterHookIds == {"hookObserve", "hookFail"}

\* the error a hook throws
HookError(h) == [tag |-> "Error", message |-> h]

BeforeHookThrows(h) == h = "hookThrow"

\* (url, options) => { ... }: the mutation a before-hook makes on the
\* pending request options it is given
BeforeHookBody(h, mo) ==
    CASE h = "hookForm" ->
           [mo EXCEPT !.headers = Spread(@, "Content-Type" :>
                                     "application/x-www-form-urlencoded"),
                      !.rest = Spread(@, "credentials" :> "include")]
      [] h = "hookLower" ->
           [mo EXCEPT !.headers = Spread(@, "content-type" :> "text/html")]
      [] h = "hookMethod" ->
           [mo EXCEPT !.rest = Spread(@, "method" :> "PATCH")]
      [] OTHER -> mo

AfterHookThrows(h) == h = "hookFail"

\* the onBefore / onAfter member of the constructor options:
\* absent, one callable, or an array of callables owned by the caller
NoHook == [kind |-> "undefined", fn |-> "", elems |-> <<>>]
HookFn(h) == [kind |-> "function", fn |-> h, elems |-> <<>>]
HookArray(s) == [kind |-> "array", fn |-> "", elems |-> s]

FetcherOptions(b, a, h, r) ==
    [onBefore |-> b, onAfter |-> a, headers |-> h, rest |-> r]

\* the constructor options the model draws the instance from
CtorOptions ==
    { FetcherOptions(NoHook, NoHook, NoHeaders, EmptyObject),
      FetcherOptions(NoHook, NoHook,
                     PlainHeaders("x-base" :> "base-value"),
                     ("baseUrl" :> "https://test.com")
                        @@ ("credentials" :> "same-origin")),
      FetcherOptions(NoHook, NoHook,
                     HeadersInstance("Content-Type" :> "text/plain"),
                     "baseUrl" :> "https://test.com"),
      FetcherOptions(HookFn("hookForm"), HookArray(<<"hookObserve">>),
                     PlainHeaders("Content-Type" :> "text/xml"),
                     "baseUrl" :> "https://test.com") }

(***************************************************************************)
(* State.                                                                  *)
(***************************************************************************)
VARIABLES
    arrays,          \* the heap: address -> contents of a hook array
    callerRefs,      \* the arrays the constructing code passed as onBefore
                     \* and onAfter and still holds: addresses, 0 for none
    baseUrl,         \* Fetcher.baseUrl, per instance
    defaultOptions,  \* Fetcher.defaultOptions, per instance
    beforeHooks,     \* Fetcher.beforeHooks, per instance: an address
    afterHooks,      \* Fetcher.afterHooks, per instance: an address
    calls,           \* the verb calls: position in request() and locals
    lastOp,          \* history: the registry operation made last
    v1               \* the client of version 1 (constructor(baseUrl, headers))

vars == <<arrays, callerRefs, baseUrl, defaultOptions, beforeHooks,
          afterHooks, calls, lastOp, v1>>

\* the least address outside `used`
Alloc(used) == CHOOSE a \in ArrayIds \ used :
                   \A b \in ArrayIds \ used : a <= b

\* every place that holds the address of a hook array, in a fixed order
\* (0: holds none)
Slots(bh, ah, cs, refs) ==
    [k \in DOMAIN InstanceSeq |-> bh[InstanceSeq[k]]]
        \o [k \in DOMAIN InstanceSeq |-> ah[InstanceSeq[k]]]
        \o [k \in DOMAIN CallSeq |-> cs[CallSeq[k]].iterArr]
        \o <<refs.onBefore, refs.onAfter>>

\* the addresses still reachable from an instance, a loop or the caller
Roots(bh, ah, cs, refs) ==
    {Slots(bh, ah, cs, refs)[k] : k \in DOMAIN Slots(bh, ah, cs, refs)} \ {0}

\* the addresses of s without 0 and repetitions, by first occurrence
RECURSIVE FirstRefs(_)
FirstRefs(s) ==
    IF s = <<>> THEN <<>>
    ELSE LET r == FirstRefs(SubSeq(s, 1, Len(s) - 1))
             a == s[Len(s)]
         IN  IF a = 0 \/ \E k \in DOMAIN r : r[k] = a THEN r ELSE Append(r, a)

\* An address means nothing but the identity of its array.  After every
\* step the reachable arrays are renumbered in the order of their first
\* slot, and the unreachable ones are reclaimed.
Commit(arr, bh, ah, cs, refs) ==
    \E order \in {FirstRefs(Slots(bh, ah, cs, refs))} :
    \E ren \in {[a \in {0} \cup ArrayIds |->
                   IF \E n \in DOMAIN order : order[n] = a
                   THEN CHOOSE n \in DOMAIN order : order[n] = a
                   ELSE 0]} :
        /\ arrays' = [n \in ArrayIds |->
                         IF n <= Len(order) THEN arr[order[n]] ELSE <<>>]
        /\ beforeHooks' = [i \in Instances |-> ren[bh[i]]]
        /\ afterHooks' = [i \in Instances |-> ren[ah[i]]]
        /\ calls' = [c \in CallIds |-> [cs[c] EXCEPT !.iterArr = ren[@]]]
        /\ callerRefs' = [onBefore |-> ren[refs.onBefore],
                          onAfter |-> ren[refs.onAfter]]
        /\ UNCHANGED <<baseUrl, defaultOptions, v1>>

\* a call that has not been issued
IdleCall ==
    [pc |-> "idle", inst |-> "", url |-> "", options |-> EmptyInit,
     mergedOptions |-> [headers |-> EmptyObject, rest |-> EmptyObject],
     iterArr |-> 0, iterIdx |-> 0, hook |-> "",
     dispatched |-> <<>>, res |-> NoValue, data |-> "",
     result |-> NoValue, error |-> NoValue, parsed |-> NoValue,
     log |-> <<>>]

(***************************************************************************)
(* constructor(options)                                                    *)
(***************************************************************************)
\* this.baseUrl = options.baseUrl || ""
CtorBaseUrl(o) == IF "baseUrl" \in DOMAIN o.rest THEN o.rest["baseUrl"] ELSE ""

\* const { onBefore, onAfter, ...rest } = options; this.defaultOptions = rest
CtorDefaultOptions(o) == RequestInit(o.headers, o.rest)

\* Array.isArray(hooks) ? hooks : [hooks], or the initial [] when absent
CtorHookList(h) ==
    CASE h.kind = "array" -> h.elems
      [] h.kind = "function" -> <<h.fn>>
      [] OTHER -> <<>>

\* the registry operation made last, with the hook lists, the caller's
\* arrays and the position of every call at the time it was made
NoOp ==
    [op |-> "none", inst |-> "", hook |-> "",
     lists |-> [i \in Instances |-> [before |-> <<>>, after |-> <<>>]],
     caller |-> [onBefore |-> <<>>, onAfter |-> <<>>],
     phase |-> [c \in CallIds |-> "idle"],
     loops |-> [c \in CallIds |-> <<>>],
     live |-> [c \in CallIds |-> FALSE]]

\* new Fetcher(o) twice, by the same code and with the same options object
InitWith(o) ==
        \* an array passed as onBefore / onAfter is stored as it is: both
        \* instances and the caller hold the same array.  Otherwise each
        \* constructor call makes its own array.
        LET b == [k \in DOMAIN InstanceSeq |->
                     IF o.onBefore.kind = "array" THEN 1 ELSE k]
            nb == IF o.onBefore.kind = "array" THEN 1 ELSE Len(InstanceSeq)
            a == [k \in DOMAIN InstanceSeq |->
                     IF o.onAfter.kind = "array" THEN nb + 1 ELSE nb + k]
            ix == [i \in Instances |->
                      CHOOSE k \in DOMAIN InstanceSeq : InstanceSeq[k] = i]
        IN  /\ arrays = [x \in ArrayIds |->
                            IF \E k \in DOMAIN b : b[k] = x
                            THEN CtorHookList(o.onBefore)
                            ELSE IF \E k \in DOMAIN a : a[k] = x
                            THEN CtorHookList(o.onAfter)
                            ELSE <<>>]
            /\ callerRefs = [onBefore |-> IF o.onBefore.kind = "array"
                                           THEN b[1] ELSE 0,
                             onAfter |-> IF o.onAfter.kind = "array"
                                          THEN a[1] ELSE 0]
            /\ baseUrl = [i \in Instances |-> CtorBaseUrl(o)]
            /\ defaultOptions = [i \in Instances |-> CtorDefaultOptions(o)]
            /\ beforeHooks = [i \in Instances |-> b[ix[i]]]
            /\ afterHooks = [i \in Instances |-> a[ix[i]]]
            /\ calls = [c \in CallIds |-> IdleCall]
            /\ lastOp = NoOp

\* no client of version 1 has been constructed
Init == (\E o \in CtorOptions : InitWith(o)) /\ v1 = NoValue

(***************************************************************************)
(* Hook registry.                                                          *)
(***************************************************************************)
\* addBeforeHook that does not register a hook a second time
AddBeforeHookDedup(i, h) ==
    /\ Len(arrays[beforeHooks[i]]) < MaxHooks
    /\ Commit([arrays EXCEPT ![beforeHooks[i]] =
                   IF \E k \in DOMAIN @ : @[k] = h THEN @ ELSE Append(@, h)],
              beforeHooks, afterHooks, calls, callerRefs)

\* this.beforeHooks.push(hook)
AddBeforeHook(i, h) ==
    /\ Len(arrays[beforeHooks[i]]) < MaxHooks
    /\ Commit([arrays EXCEPT ![beforeHooks[i]] = Append(@, h)],
              beforeHooks, afterHooks, calls, callerRefs)

\* this.afterHooks.push(hook)
AddAfterHook(i, h) ==
    /\ Len(arrays[afterHooks[i]]) < MaxHooks
    /\ Commit([arrays EXCEPT ![afterHooks[i]] = Append(@, h)],
              beforeHooks, afterHooks, calls, callerRefs)

\* a filter that drops only the first entry equal to hook
FilterOutFirst(s, hook) ==
    IF \E k \in DOMAIN s : s[k] = hook
    THEN LET f == CHOOSE k \in DOMAIN s :
                      s[k] = hook /\ \A j \in 1..(k - 1) : s[j] # hook
         IN  SubSeq(s, 1, f - 1) \o SubSeq(s, f + 1, Len(s))
    ELSE s

\* hooks.filter((h) => h !== hook): a new array
FilterOut(s, hook) == SelectSeq(s, LAMBDA x : x # hook)

\* removeBeforeHook that takes the entries out of the array in place
RemoveBeforeHookInPlace(i, h) ==
    Commit([arrays EXCEPT ![beforeHooks[i]] = FilterOut(@, h)],
           beforeHooks, afterHooks, calls, callerRefs)

\* this.beforeHooks = this.beforeHooks.filter((h) => h !== hook)
RemoveBeforeHook(i, h) ==
    LET n == Alloc(Roots(beforeHooks, afterHooks, calls, callerRefs))
    IN  Commit([arrays EXCEPT ![n] = FilterOut(arrays[beforeHooks[i]], h)],
               [beforeHooks EXCEPT ![i] = n], afterHooks, calls, callerRefs)

\* this.afterHooks = this.afterHooks.filter((h) => h !== hook)
RemoveAfterHook(i, h) ==
    LET n == Alloc(Roots(beforeHooks, afterHooks, calls, callerRefs))
    IN  Commit([arrays EXCEPT ![n] = FilterOut(arrays[afterHooks[i]], h)],
               beforeHooks, [afterHooks EXCEPT ![i] = n], calls, callerRefs)

\* clearHooks that forgets the after-hooks
ClearHooksBeforeOnly(i) ==
    LET n == Alloc(Roots(beforeHooks, afterHooks, calls, callerRefs))
    IN  Commit([arrays EXCEPT ![n] = <<>>],
               [beforeHooks EXCEPT ![i] = n], afterHooks, calls, callerRefs)

\* this.beforeHooks = []; this.afterHooks = []
ClearHooks(i) ==
    LET roots == Roots(beforeHooks, afterHooks, calls, callerRefs)
        n == Alloc(roots)
        m == Alloc(roots \cup {n})
    IN  Commit([arrays EXCEPT ![n] = <<>>, ![m] = <<>>],
               [beforeHooks EXCEPT ![i] = n], [afterHooks EXCEPT ![i] = m],
               calls, callerRefs)

(***************************************************************************)
(* The transport (fetch) and what it answers.                              *)
(***************************************************************************)
Response(ok, status, statusText, headers, parseable, body) ==
    [tag |-> "Response", ok |-> ok, status |-> status,
     statusText |-> statusText, headers |-> headers,
     parseable |-> parseable, body |-> body]

\* the responses the transport may resolve with
Responses ==
    { Response(TRUE, 200, "OK", "headers-200", TRUE, "{value:12345}"),
      Response(TRUE, 204, "No Content", "headers-204", FALSE, ""),
      Response(FALSE, 404, "Not Found", "headers-404", TRUE,
               "{message:Not found}"),
      Response(FALSE, 500, "Internal Server Error", "headers-500", FALSE,
               "<html>") }

\* the errors the transport may reject with
TransportErrors == { [tag |-> "Error", message |-> "Network error"] }

\* await res.json().catch(() => null)
ParseBody(res) == IF res.parseable THEN res.body ELSE Null

\* new FetcherError(message, status, data, headers)
FetcherError(message, status, data, headers) ==
    [tag |-> "FetcherError", message |-> message, status |-> status,
     data |-> data, headers |-> headers]

\* { data, status: res.status, headers: res.headers }
FetcherResponse(data, res) ==
    [tag |-> "FetcherResponse", data |-> data, status |-> res.status,
     headers |-> res.headers]

(***************************************************************************)
(* request(path, options): the pieces between two awaits.                  *)
(***************************************************************************)
Event(ev, hook, res, data) == [ev |-> ev, hook |-> hook, res |-> res, data |-> data]

\* { ...this.defaultOptions, ...options } and the first headers merge
MergeOptions(defaults, options) ==
    [rest |-> Spread(defaults.rest, options.rest),
     headers |-> Spread(Spread("Content-Type" :> "application/json",
                               OwnProps(defaults.headers)),
                        OwnProps(options.headers))]

\* mergedOptions.headers = { ...mergedOptions.headers, ...options.headers }
RemergeHeaders(mo, options) ==
    [mo EXCEPT !.headers = Spread(@, OwnProps(options.headers))]

\* the call has thrown: catch (error) { throw error }
Throw(cr, e) ==
    [cr EXCEPT !.pc = "done", !.error = e, !.iterArr = 0, !.iterIdx = 0,
               !.hook = ""]

\* Dispatch that issues the transport call a second time
DispatchTwice(cr) ==
    LET mo == RemergeHeaders(cr.mergedOptions, cr.options)
    IN  [cr EXCEPT !.pc = "fetching", !.mergedOptions = mo,
                   !.iterArr = 0, !.iterIdx = 0, !.hook = "",
                   !.dispatched = <<[url |-> cr.url, init |-> mo],
                                    [url |-> cr.url, init |-> mo]>>,
                   !.log = Append(@, Event("fetch", "", NoValue, ""))]

\* fetch(url, mergedOptions) after the before-hook loop
Dispatch(cr) ==
    LET mo == RemergeHeaders(cr.mergedOptions, cr.options)
    IN  [cr EXCEPT !.pc = "fetching", !.mergedOptions = mo,
                   !.iterArr = 0, !.iterIdx = 0, !.hook = "",
                   !.dispatched = Append(@, [url |-> cr.url, init |-> mo]),
                   !.log = Append(@, Event("fetch", "", NoValue, ""))]

\* StepBefore with the hooks taken from the end of the list
StepBeforeReversed(cr, arr) ==
    IF cr.iterIdx <= Len(arr[cr.iterArr])
    THEN LET h == arr[cr.iterArr][Len(arr[cr.iterArr]) + 1 - cr.iterIdx]
         IN  [cr EXCEPT !.pc = "inBefore", !.hook = h,
                        !.log = Append(@, Event("before", h, NoValue, ""))]
    ELSE Dispatch(cr)

\* for (const hook of this.beforeHooks) await hook(url, mergedOptions):
\* the next hook is invoked, or the loop ends and the request is dispatched
StepBefore(cr, arr) ==
    IF cr.iterIdx <= Len(arr[cr.iterArr])
    THEN [cr EXCEPT !.pc = "inBefore", !.hook = arr[cr.iterArr][cr.iterIdx],
                    !.log = Append(@, Event("before",
                                 arr[cr.iterArr][cr.iterIdx], NoValue, ""))]
    ELSE Dispatch(cr)

\* Classify that also hands out an envelope for a failed response
ClassifyBoth(cr) ==
    [(IF ~cr.res.ok
      THEN Throw(cr, FetcherError(cr.res.statusText, cr.res.status, cr.data,
                                  cr.res.headers))
      ELSE cr)
     EXCEPT !.pc = "done", !.result = FetcherResponse(cr.data, cr.res),
            !.iterArr = 0, !.iterIdx = 0, !.hook = ""]

\* if (!res.ok) throw new FetcherError(...); return { data, status, headers }
Classify(cr) ==
    IF ~cr.res.ok
    THEN Throw(cr, FetcherError(cr.res.statusText, cr.res.status, cr.data,
                                cr.res.headers))
    ELSE [cr EXCEPT !.pc = "done", !.result = FetcherResponse(cr.data, cr.res),
                    !.iterArr = 0, !.iterIdx = 0, !.hook = ""]

\* StepAfter that classifies a failed response without running the hooks
StepAfterOkOnly(cr, arr) ==
    IF cr.res.ok /\ cr.iterIdx <= Len(arr[cr.iterArr])
    THEN [cr EXCEPT !.pc = "inAfter", !.hook = arr[cr.iterArr][cr.iterIdx],
                    !.log = Append(@, Event("after",
                                 arr[cr.iterArr][cr.iterIdx], cr.res, cr.data))]
    ELSE Classify(cr)

\* for (const hook of this.afterHooks) await hook(res, data):
\* the next hook is invoked, or the loop ends and the response is classified
StepAfter(cr, arr) ==
    IF cr.iterIdx <= Len(arr[cr.iterArr])
    THEN [cr EXCEPT !.pc = "inAfter", !.hook = arr[cr.iterArr][cr.iterIdx],
                    !.log = Append(@, Event("after",
                                 arr[cr.iterArr][cr.iterIdx], cr.res, cr.data))]
    ELSE Classify(cr)

\* the state after a piece of a call has run: the call's record is replaced
Resume(c, cr) ==
    /\ Commit(arrays, beforeHooks, afterHooks, [calls EXCEPT ![c] = cr],
              callerRefs)
    /\ UNCHANGED lastOp

\* request that takes over the pending request of a call in flight
RequestShared(c, i, path, options) ==
    /\ calls[c].pc = "idle"
    /\ Resume(c, StepBefore(
           [IdleCall EXCEPT !.inst = i,
                            !.url = baseUrl[i] \o path,
                            !.options = options,
                            !.mergedOptions =
                                IF \E d \in CallIds : calls[d].pc # "idle"
                                THEN calls[CHOOSE d \in CallIds :
                                               calls[d].pc # "idle"].mergedOptions
                                ELSE MergeOptions(defaultOptions[i], options),
                            !.iterArr = beforeHooks[i],
                            !.iterIdx = 1],
           arrays))

\* request(path, options) up to its first await
Request(c, i, path, options) ==
    /\ calls[c].pc = "idle"
    /\ Resume(c, StepBefore(
           [IdleCall EXCEPT !.inst = i,
                            !.url = baseUrl[i] \o path,
                            !.options = options,
                            !.mergedOptions = MergeOptions(defaultOptions[i], options),
                            !.iterArr = beforeHooks[i],
                            !.iterIdx = 1],
           arrays))

\* BeforeHookSettles that swallows the error of a hook and goes on
BeforeHookSettlesSwallow(c) ==
    /\ calls[c].pc = "inBefore"
    /\ LET cr == calls[c]
       IN  Resume(c, StepBefore(
               [cr EXCEPT !.mergedOptions = BeforeHookBody(cr.hook, @),
                          !.iterIdx = @ + 1,
                          !.log = Append(@, Event("beforeDone", cr.hook,
                                                  NoValue, ""))],
               arrays))

\* the awaited before-hook settles: it has mutated the options, or it threw
BeforeHookSettles(c) ==
    /\ calls[c].pc = "inBefore"
    /\ LET cr == calls[c]
       IN  IF BeforeHookThrows(cr.hook)
           THEN Resume(c, Throw(cr, HookError(cr.hook)))
           ELSE Resume(c, StepBefore(
                    [cr EXCEPT !.mergedOptions = BeforeHookBody(cr.hook, @),
                               !.iterIdx = @ + 1,
                               !.log = Append(@, Event("beforeDone", cr.hook,
                                                       NoValue, ""))],
                    arrays))

\* the transport resolves with a response; res.json() is called
FetchResolves(c, r) ==
    /\ calls[c].pc = "fetching"
    /\ Resume(c, [calls[c] EXCEPT !.pc = "parsing", !.res = r])

\* FetchRejects that wraps the transport error in a FetcherError
FetchRejectsWrapped(c, e) ==
    /\ calls[c].pc = "fetching"
    /\ Resume(c, Throw([calls[c] EXCEPT
                            !.log = Append(@, Event("rejected", "", e, ""))],
                       FetcherError(e.message, 0, Null, "")))

\* the transport rejects
FetchRejects(c, e) ==
    /\ calls[c].pc = "fetching"
    /\ Resume(c, Throw([calls[c] EXCEPT
                            !.log = Append(@, Event("rejected", "", e, ""))],
                       e))

\* res.json() settles; the after-hook loop starts
JsonSettles(c) ==
    /\ calls[c].pc = "parsing"
    /\ LET cr == calls[c]
       IN  Resume(c, StepAfter(
               [cr EXCEPT !.data = ParseBody(cr.res),
                          !.iterArr = afterHooks[cr.inst],
                          !.iterIdx = 1],
               arrays))

\* the awaited after-hook settles
AfterHookSettles(c) ==
    /\ calls[c].pc = "inAfter"
    /\ LET cr == calls[c]
       IN  IF AfterHookThrows(cr.hook)
           THEN Resume(c, Throw(cr, HookError(cr.hook)))
           ELSE Resume(c, StepAfter(
                    [cr EXCEPT !.iterIdx = @ + 1,
                               !.log = Append(@, Event("afterDone", cr.hook,
                                                       cr.res, cr.data))],
                    arrays))

\* what parseError returns for an error that is not a FetcherError
Undefined == [tag |-> "undefined"]

\* parseError that narrows any error carrying a message
ParseErrorAny(e) ==
    [message |-> e.message,
     status |-> IF e.tag = "FetcherError" THEN e.status ELSE 0,
     data |-> IF e.tag = "FetcherError" THEN e.data ELSE Null,
     headers |-> IF e.tag = "FetcherError" THEN e.headers ELSE ""]

\* parseError(error)
ParseError(e) ==
    IF e.tag = "FetcherError"
    THEN [message |-> e.message, status |-> e.status, data |-> e.data,
          headers |-> e.headers]
    ELSE Undefined

\* the caller catches the error of a call and hands it to parseError
CatchAndParse(c) ==
    /\ calls[c].pc = "done"
    /\ calls[c].error # NoValue
    /\ calls[c].parsed = NoValue
    /\ Resume(c, [calls[c] EXCEPT !.parsed = ParseError(calls[c].error)])

\* the caller has received the outcome; the pending request is discarded
Discard(c) ==
    /\ calls[c].pc = "done"
    /\ Resume(c, IdleCall)

(***************************************************************************)
(* The verb methods.                                                       *)
(***************************************************************************)
Paths == {"/test"}

\* the per-call options the model draws from
CallOptions ==
    { EmptyInit,
      RequestInit(PlainHeaders(("Content-Type" :> "text/plain")
                                  @@ ("x-base" :> "override")),
                  "credentials" :> "omit"),
      RequestInit(HeadersInstance("x-base" :> "override"), EmptyObject),
      RequestInit(PlainHeaders("content-type" :> "text/csv"),
                  "body" :> "{data:test}") }

\* { method, ...options }: a method among the options wins over the verb's
WithMethodUnder(options, method) ==
    [options EXCEPT !.rest = Spread("method" :> method, @)]

\* { ...options, method }
WithMethod(options, method) ==
    [options EXCEPT !.rest = Spread(@, "method" :> method)]

\* the options given to a verb that sends a body, and to one that does not
BodyOptions == {o \in CallOptions : "body" \in DOMAIN o.rest}
NoBodyOptions == CallOptions \ BodyOptions

Get(c, i, path, options) ==
    Request(c, i, path, WithMethod(options, "GET"))

Post(c, i, path, options) ==
    Request(c, i, path, WithMethod(options, "POST"))

Put(c, i, path, options) ==
    Request(c, i, path, WithMethod(options, "PUT"))

Delete(c, i, path, options) ==
    Request(c, i, path, WithMethod(options, "DELETE"))

(***************************************************************************)
(* Specification.                                                          *)
(***************************************************************************)
\* one client that makes one call at a time
OneInstance == {InstanceSeq[1]}
OneCall == {CallSeq[1]}

\* a hook-registry operation on the client
RegistryStep ==
    \/ \E i \in OneInstance, h \in BeforeHookIds : AddBeforeHook(i, h)
    \/ \E i \in OneInstance, h \in AfterHookIds : AddAfterHook(i, h)
    \/ \E i \in OneInstance, h \in BeforeHookIds : RemoveBeforeHook(i, h)
    \/ \E i \in OneInstance, h \in AfterHookIds : RemoveAfterHook(i, h)
    \/ \E i \in OneInstance : ClearHooks(i)

\* a verb call is issued
VerbStep ==
    \/ \E c \in OneCall, i \in OneInstance, p \in Paths, o \in NoBodyOptions :
           Get(c, i, p, o)
    \/ \E c \in OneCall, i \in OneInstance, p \in Paths, o \in BodyOptions :
           Post(c, i, p, o)
    \/ \E c \in OneCall, i \in OneInstance, p \in Paths, o \in BodyOptions :
           Put(c, i, p, o)
    \/ \E c \in OneCall, i \in OneInstance, p \in Paths, o \in {EmptyInit} :
           Delete(c, i, p, o)

\* a call in flight moves on
PipelineStep ==
    \/ \E c \in OneCall : BeforeHookSettles(c)
    \/ \E c \in OneCall, r \in Responses : FetchResolves(c, r)
    \/ \E c \in OneCall, e \in TransportErrors : FetchRejects(c, e)
    \/ \E c \in OneCall : JsonSettles(c)
    \/ \E c \in OneCall : AfterHookSettles(c)
    \/ \E c \in OneCall : CatchAndParse(c)
    \/ \E c \in OneCall : Discard(c)

\* no call is in flight or waits for its outcome to be received
Quiescent == \A c \in CallIds : calls[c].pc = "idle"

\* The caller changes the hook lists only between calls: a change made while
\* a request is in flight is not guarded by the client.
Next ==
    \/ Quiescent /\ RegistryStep /\ UNCHANGED lastOp
    \/ VerbStep
    \/ PipelineStep

Spec == Init /\ [][Next]_vars

(***************************************************************************)
(* Two clients built from the same options, whose hook lists are changed   *)
(* between calls.                                                          *)
(***************************************************************************)
\* the hooks the caller registers and removes
RegistryBeforeHooks == {"hookForm", "hookThrow"}
RegistryAfterHooks == {"hookObserve"}

\* the contents of the array at address a, nothing for no array
Contents(a) == IF a = 0 THEN <<>> ELSE arrays[a]

\* the operation op(h) on instance i is the one made last
Record(op, i, h) ==
    lastOp' = [op |-> op, inst |-> i, hook |-> h,
               lists |-> [j \in Instances |->
                             [before |-> arrays[beforeHooks[j]],
                              after |-> arrays[afterHooks[j]]]],
               caller |-> [onBefore |-> Contents(callerRefs.onBefore),
                           onAfter |-> Contents(callerRefs.onAfter)],
               phase |-> [c \in CallIds |-> calls[c].pc],
               loops |-> [c \in CallIds |-> Contents(calls[c].iterArr)],
               \* the loop of call c iterates a list that instance i holds
               live |-> [c \in CallIds |->
                            calls[c].iterArr \in {beforeHooks[i],
                                                  afterHooks[i]}]]

\* a registry operation on the first client, between calls
RegistryOp ==
    \/ \E i \in OneInstance, h \in RegistryBeforeHooks :
           AddBeforeHook(i, h) /\ Record("addBeforeHook", i, h)
    \/ \E i \in OneInstance, h \in RegistryAfterHooks :
           AddAfterHook(i, h) /\ Record("addAfterHook", i, h)
    \/ \E i \in OneInstance, h \in RegistryBeforeHooks :
           RemoveBeforeHook(i, h) /\ Record("removeBeforeHook", i, h)
    \/ \E i \in OneInstance, h \in RegistryAfterHooks :
           RemoveAfterHook(i, h) /\ Record("removeAfterHook", i, h)
    \/ \E i \in OneInstance : ClearHooks(i) /\ Record("clearHooks", i, "")

\* a call on either client that the transport answers
AnsweredCall ==
    \/ \E c \in OneCall, i \in Instances, p \in Paths :
           Get(c, i, p, EmptyInit)
    \/ \E c \in OneCall : BeforeHookSettles(c)
    \/ \E c \in OneCall, r \in {x \in Responses : x.parseable} :
           FetchResolves(c, r)
    \/ \E c \in OneCall : JsonSettles(c)
    \/ \E c \in OneCall : AfterHookSettles(c)
    \/ \E c \in OneCall : Discard(c)

NextRegistry ==
    \/ Quiescent /\ RegistryOp
    \/ AnsweredCall

SpecRegistry == Init /\ [][NextRegistry]_vars

(***************************************************************************)
(* One client whose hook lists are changed at any moment, also while its   *)
(* call is in flight.                                                      *)
(***************************************************************************)
\* the hooks registered and removed while a call is in flight
RaceBeforeHooks == {"hookForm"}
RaceAfterHooks == {"hookObserve"}

\* a registry operation on the client, at any moment
RaceOp ==
    \/ \E i \in OneInstance, h \in RaceBeforeHooks :
           AddBeforeHook(i, h) /\ Record("addBeforeHook", i, h)
    \/ \E i \in OneInstance, h \in RaceAfterHooks :
           AddAfterHook(i, h) /\ Record("addAfterHook", i, h)
    \/ \E i \in OneInstance, h \in RaceBeforeHooks :
           RemoveBeforeHook(i, h) /\ Record("removeBeforeHook", i, h)
    \/ \E i \in OneInstance, h \in RaceAfterHooks :
           RemoveAfterHook(i, h) /\ Record("removeAfterHook", i, h)
    \/ \E i \in OneInstance : ClearHooks(i) /\ Record("clearHooks", i, "")

\* the one call of the client, which the transport answers with success
RacingCall ==
    \/ \E c \in OneCall, i \in OneInstance, p \in Paths :
           Get(c, i, p, EmptyInit)
    \/ \E c \in OneCall : BeforeHookSettles(c)
    \/ \E c \in OneCall, r \in {x \in Responses : x.ok /\ x.parseable} :
           FetchResolves(c, r)
    \/ \E c \in OneCall : JsonSettles(c)
    \/ \E c \in OneCall : AfterHookSettles(c)

NextRace ==
    \/ RaceOp
    \/ RacingCall

\* the client was constructed with a before-hook and an array of after-hooks
InitRace == Init /\ callerRefs.onAfter # 0

SpecRace == InitRace /\ [][NextRace]_vars

(***************************************************************************)
(* One client with two calls in flight at the same time.                   *)
(***************************************************************************)
\* the per-call options of the concurrent calls
ConcurrentOptions == {o \in NoBodyOptions : o.headers.kind # "Headers"}

\* the hook that is registered and removed between the steps of the calls
ConcurrentHooks == {"hookForm"}

\* the calls of the client, each issued once, run side by side
ConcurrentCall ==
    \/ \E c \in CallIds, i \in OneInstance, p \in Paths,
              o \in ConcurrentOptions :
           Get(c, i, p, o)
    \/ \E c \in CallIds : BeforeHookSettles(c)
    \/ \E c \in CallIds, r \in {x \in Responses : x.ok /\ x.parseable} :
           FetchResolves(c, r)
    \/ \E c \in CallIds : JsonSettles(c)
    \/ \E c \in CallIds : AfterHookSettles(c)

\* the list of before-hooks changes while the calls run
ConcurrentOp ==
    \/ \E i \in OneInstance, h \in ConcurrentHooks : AddBeforeHook(i, h)
    \/ \E i \in OneInstance, h \in ConcurrentHooks : RemoveBeforeHook(i, h)

NextConcurrent ==
    \/ ConcurrentCall
    \/ ConcurrentOp /\ UNCHANGED lastOp

SpecConcurrent == Init /\ [][NextConcurrent]_vars

(***************************************************************************)
(* One client whose defaults and per-call options may name a method.       *)
(***************************************************************************)
\* the constructor options: none, or a default method and a hook of
\* either kind
VerbCtorOptions ==
    { FetcherOptions(NoHook, NoHook, NoHeaders, EmptyObject),
      FetcherOptions(HookFn("hookForm"), HookFn("hookObserve"), NoHeaders,
                     ("baseUrl" :> "https://test.com")
                        @@ ("method" :> "HEAD")) }

\* the per-call options: none, or a method of the caller's choice
VerbOptions == {EmptyInit, RequestInit(NoHeaders, "method" :> "OPTIONS")}
VerbBodyOptions ==
    { RequestInit(NoHeaders, "body" :> "{data:test}"),
      RequestInit(NoHeaders, ("body" :> "{data:test}")
                                @@ ("method" :> "OPTIONS")) }

\* each verb is called with a path of its own
VerbPath ==
    [get |-> "/get", post |-> "/post", put |-> "/put", delete |-> "/delete"]

\* the before-hooks registered and removed between the calls
VerbHooks == {"hookMethod", "hookForm"}

InitVerbs == (\E o \in VerbCtorOptions : InitWith(o)) /\ v1 = NoValue

\* the before-hook list changes between calls
VerbRegistryOp ==
    \/ \E i \in OneInstance, h \in VerbHooks : AddBeforeHook(i, h)
    \/ \E i \in OneInstance, h \in VerbHooks : RemoveBeforeHook(i, h)

\* a call of one of the four verbs that the transport answers
VerbCall ==
    \/ \E c \in OneCall, i \in OneInstance, o \in VerbOptions :
           Get(c, i, VerbPath.get, o)
    \/ \E c \in OneCall, i \in OneInstance, o \in VerbBodyOptions :
           Post(c, i, VerbPath.post, o)
    \/ \E c \in OneCall, i \in OneInstance, o \in VerbBodyOptions :
           Put(c, i, VerbPath.put, o)
    \/ \E c \in OneCall, i \in OneInstance, o \in VerbOptions :
           Delete(c, i, VerbPath.delete, o)
    \/ \E c \in OneCall : BeforeHookSettles(c)
    \/ \E c \in OneCall, r \in {x \in Responses : x.parseable} :
           FetchResolves(c, r)
    \/ \E c \in OneCall : JsonSettles(c)
    \/ \E c \in OneCall : AfterHookSettles(c)
    \/ \E c \in OneCall : Discard(c)

NextVerbs ==
    \/ Quiescent /\ VerbRegistryOp /\ UNCHANGED lastOp
    \/ VerbCall

SpecVerbs == InitVerbs /\ [][NextVerbs]_vars

(***************************************************************************)
(* The client of version 1: constructor(baseUrl, headers), onBefore(hooks) *)
(* and verbs that take Headers objects.                                    *)
(***************************************************************************)
\* a Headers object keeps its names in lower case
HeaderName(k) ==
    CASE k = "Content-Type" -> "content-type"
      [] k = "X-Test" -> "x-test"
      [] OTHER -> k

\* Headers.prototype.append: a second value for a name is joined to the first
HeadersAppend(h, k, v) ==
    IF HeaderName(k) \in DOMAIN h
    THEN [h EXCEPT ![HeaderName(k)] = @ \o ", " \o v]
    ELSE (HeaderName(k) :> v) @@ h

\* new Headers({ name: value, ... }) from the entries of the literal
RECURSIVE NewHeaders(_)
NewHeaders(init) ==
    IF init = <<>> THEN EmptyObject
    ELSE HeadersAppend(NewHeaders(SubSeq(init, 1, Len(init) - 1)),
                       init[Len(init)][1], init[Len(init)][2])

\* Headers.prototype.set: the value of the name is replaced
HeadersSet(h, k, v) == (HeaderName(k) :> v) @@ h

\* src.forEach((v, k) => { dst.set(k, v) }) over the names in todo
RECURSIVE SetEach(_, _, _)
SetEach(dst, src, todo) ==
    IF todo = {} THEN dst
    ELSE LET k == CHOOSE x \in todo : TRUE
         IN  SetEach(HeadersSet(dst, k, src[k]), src, todo \ {k})

\* new Headers(headers) from a Headers object
CopyHeaders(h) == SetEach(EmptyObject, h, DOMAIN h)

\* the onBefore hooks of version 1 and the entries of the Headers each returns
V1HookIds == {"v1Token", "v1Form", "v1Case"}
V1HookInit(c) ==
    CASE c = "v1Token" -> << <<"x-another-test", "adefinitlybettertoken">> >>
      [] c = "v1Form" ->
           << <<"Content-Type", "application/x-www-form-urlencoded">> >>
      [] OTHER -> << <<"X-Test", "hook">>, <<"x-another-test", "hook">> >>

\* the entries of the headers given to the constructor and to a verb
V1CtorInits ==
    { << <<"Content-Type", "application/json">> >>,
      << <<"content-type", "text/xml">>, <<"x-test", "base">> >> }
V1RequestInits ==
    { << <<"x-test", "test">> >>,
      << <<"Content-Type", "text/plain">> >>,
      << <<"X-Test", "TEST">>, <<"content-type", "text/csv">> >> }

\* the headers argument of a verb: new Headers({ ... }), or left out
V1HeadersArg(init) == [tag |-> "Headers", init |-> init]
V1RequestArgs == {V1HeadersArg(init) : init \in V1RequestInits} \cup {NoValue}

\* the hook lists a call of onBefore is given
V1HookLists ==
    {<<c>> : c \in V1HookIds} \cup {<<"v1Form", "v1Token">>}

\* new Fetcher(baseUrl, headers)
V1Fetcher(url, init) ==
    [baseUrl |-> url, ctorInit |-> init, headers |-> NewHeaders(init),
     onBefore |-> <<>>, pc |-> "idle", sent |-> NoValue, call |-> NoValue,
     res |-> NoValue, outcome |-> NoValue]

\* accumulateHeaders that writes the per-request headers before the hooks'
AccumulateHeadersRequestFirst(this, requestHeaders) ==
    LET start == IF requestHeaders = NoValue
                 THEN CopyHeaders(this.headers)
                 ELSE SetEach(CopyHeaders(this.headers), requestHeaders,
                              DOMAIN requestHeaders)
        acc[n \in 0..Len(this.onBefore)] ==
            IF n = 0 THEN start
            ELSE LET h == NewHeaders(V1HookInit(this.onBefore[n]))
                 IN  SetEach(acc[n - 1], h, DOMAIN h)
    IN  acc[Len(this.onBefore)]

\* accumulateHeaders(requestHeaders)
AccumulateHeaders(this, requestHeaders) ==
    LET acc[n \in 0..Len(this.onBefore)] ==
            IF n = 0 THEN CopyHeaders(this.headers)
            ELSE LET h == NewHeaders(V1HookInit(this.onBefore[n]))
                 IN  SetEach(acc[n - 1], h, DOMAIN h)
        hooked == acc[Len(this.onBefore)]
    IN  IF requestHeaders = NoValue THEN hooked
        ELSE SetEach(hooked, requestHeaders, DOMAIN requestHeaders)

\* the other variables belong to the client of version 2
V1Frame ==
    UNCHANGED <<arrays, callerRefs, baseUrl, defaultOptions, beforeHooks,
                afterHooks, calls, lastOp>>

\* onBefore(hooks): every hook is pushed on this.hooks.onBefore
V1OnBefore(hooks) ==
    /\ Len(v1.onBefore) + Len(hooks) <= MaxHooks
    /\ v1' = [v1 EXCEPT !.onBefore = @ \o hooks]
    /\ V1Frame

\* a verb up to its await of fetch
V1Dispatch(method, url, body, arg) ==
    /\ v1.pc = "idle"
    /\ v1' = [v1 EXCEPT
                 !.pc = "fetching",
                 !.sent = [url |-> v1.baseUrl \o url, method |-> method,
                           body |-> body,
                           headers |-> AccumulateHeaders(v1,
                               IF arg = NoValue THEN NoValue
                               ELSE NewHeaders(arg.init))],
                 !.call = [hooks |-> v1.onBefore, arg |-> arg],
                 !.res = NoValue,
                 !.outcome = NoValue]
    /\ V1Frame

V1Get(url, arg) == V1Dispatch("GET", url, NoValue, arg)
V1Post(url, body, arg) == V1Dispatch("POST", url, body, arg)
V1Put(url, body, arg) == V1Dispatch("PUT", url, body, arg)
V1Delete(url, body, arg) == V1Dispatch("DELETE", url, body, arg)

\* fetch resolves; handleRes rejects with the response or awaits res.json()
V1FetchResolves(r) ==
    /\ v1.pc = "fetching"
    /\ v1' = IF ~r.ok \/ r.status >= 400
             THEN [v1 EXCEPT !.pc = "idle", !.res = r,
                             !.outcome = [tag |-> "rejected", value |-> r]]
             ELSE [v1 EXCEPT !.pc = "parsing", !.res = r]
    /\ V1Frame

\* fetch rejects
V1FetchRejects(e) ==
    /\ v1.pc = "fetching"
    /\ v1' = [v1 EXCEPT !.pc = "idle",
                        !.outcome = [tag |-> "rejected", value |-> e]]
    /\ V1Frame

\* res.json() settles: the parsed body, or the error of the parser
V1JsonSettles ==
    /\ v1.pc = "parsing"
    /\ v1' = [v1 EXCEPT
                 !.pc = "idle",
                 !.outcome = IF v1.res.parseable
                             THEN [tag |-> "resolved", value |-> v1.res.body]
                             ELSE [tag |-> "rejected",
                                   value |-> [tag |-> "SyntaxError",
                                              message |-> "Unexpected token"]]]
    /\ V1Frame

\* the bodies given to post, put and delete
V1Bodies == {"{data:test}"}

InitV1 ==
    /\ InitWith(FetcherOptions(NoHook, NoHook, NoHeaders, EmptyObject))
    /\ \E init \in V1CtorInits : v1 = V1Fetcher("https://test.com", init)

NextV1 ==
    \/ \E hooks \in V1HookLists : V1OnBefore(hooks)
    \/ \E p \in Paths, arg \in V1RequestArgs : V1Get(p, arg)
    \/ \E p \in Paths, b \in V1Bodies, arg \in V1RequestArgs :
           V1Post(p, b, arg)
    \/ \E p \in Paths, b \in V1Bodies, arg \in V1RequestArgs :
           V1Put(p, b, arg)
    \/ \E p \in Paths, b \in V1Bodies, arg \in V1RequestArgs :
           V1Delete(p, b, arg)
    \/ \E r \in Responses : V1FetchResolves(r)
    \/ \E e \in TransportErrors : V1FetchRejects(e)
    \/ V1JsonSettles

SpecV1 == InitV1 /\ [][NextV1]_vars

TypeOK ==
    /\ \A c \in CallIds :
          calls[c].pc \in {"idle", "inBefore", "fetching", "parsing",
                           "inAfter", "done"}
    /\ \A i \in Instances : beforeHooks[i] \in ArrayIds /\ afterHooks[i] \in ArrayIds

(***************************************************************************)
(* Properties of the header and option merge.                              *)
(***************************************************************************)
\* the calls whose request has been handed to the transport
Dispatched == {c \in CallIds : calls[c].dispatched # <<>>}

\* the options handed to the transport by call c
Sent(c) == calls[c].dispatched[1].init

\* the header entries of the per-call options and of the instance defaults
PerCallHeaders(c) == calls[c].options.headers.map
DefaultHeaders(c) == defaultOptions[calls[c].inst].headers.map

\* the before-hooks that have completed in call c, in the order they ran
RECURSIVE HooksDone(_)
HooksDone(log) ==
    IF log = <<>> THEN <<>>
    ELSE LET r == HooksDone(SubSeq(log, 1, Len(log) - 1))
             e == log[Len(log)]
         IN  IF e.ev = "beforeDone" THEN Append(r, e.hook) ELSE r

\* what a sequence of before-hooks writes, the later hook winning
RECURSIVE HookWrites(_)
HookWrites(hs) ==
    IF hs = <<>> THEN [headers |-> EmptyObject, rest |-> EmptyObject]
    ELSE BeforeHookBody(hs[Len(hs)], HookWrites(SubSeq(hs, 1, Len(hs) - 1)))

\* C1: for every verb call and every header key of the per-call headers,
\* the header value passed to the transport is the per-call value, whatever
\* the defaults hold and whatever a before-hook wrote to that key.
C1_PerCallHeaderWins ==
    \A c \in Dispatched :
        \A k \in DOMAIN PerCallHeaders(c) :
            /\ k \in DOMAIN Sent(c).headers
            /\ Sent(c).headers[k] = PerCallHeaders(c)[k]

\* C2: every per-call option other than headers is dispatched with its
\* per-call value, whatever the defaults hold and whatever a before-hook
\* assigned to it.
C2_PerCallOptionWins ==
    \A c \in Dispatched :
        \A k \in (DOMAIN calls[c].options.rest) \ {"method"} :
            /\ k \in DOMAIN Sent(c).rest
            /\ Sent(c).rest[k] = calls[c].options.rest[k]

\* header names compare without regard to letter case
LowerCase(k) == IF k = "Content-Type" THEN "content-type" ELSE k

\* C3: header names are case-insensitive across the layers: the dispatched
\* request carries one value per header name, so no two dispatched keys
\* differ in letter case only.
C3_OneValuePerHeaderName ==
    \A c \in Dispatched :
        \A k1, k2 \in DOMAIN Sent(c).headers :
            LowerCase(k1) = LowerCase(k2) => k1 = k2

\* the Content-Type the layers of call c define, the highest layer winning:
\* the fixed default, the instance defaults, the before-hooks run, the
\* per-call headers
LayeredHeaders(c) ==
    Spread(Spread(Spread("Content-Type" :> "application/json",
                         DefaultHeaders(c)),
                  HookWrites(HooksDone(calls[c].log)).headers),
           PerCallHeaders(c))

\* C4: the dispatched Content-Type is application/json when no layer
\* defines Content-Type, and otherwise the value of the highest-precedence
\* layer that sets it.
C4_ContentTypeByLayer ==
    \A c \in Dispatched :
        /\ "Content-Type" \in DOMAIN Sent(c).headers
        /\ Sent(c).headers["Content-Type"] = LayeredHeaders(c)["Content-Type"]

(***************************************************************************)
(* Properties of the pipeline of one call.                                 *)
(***************************************************************************)
\* the errors a hook of the model throws
HookErrors == {HookError(h) : h \in BeforeHookIds \cup AfterHookIds}

\* C5 as stated: a call ends with exactly one outcome, which is a Response
\* Envelope, a thrown FetcherError or a rethrown transport error.
C5_OneOutcomeOfThree ==
    \A c \in CallIds :
        LET cr == calls[c]
        IN  /\ cr.pc # "done" => cr.result = NoValue /\ cr.error = NoValue
            /\ cr.pc = "done" =>
                  /\ (cr.result = NoValue) # (cr.error = NoValue)
                  /\ cr.result # NoValue => cr.result.tag = "FetcherResponse"
                  /\ cr.error # NoValue =>
                        \/ cr.error.tag = "FetcherError"
                        \/ cr.error \in TransportErrors

\* C5 amended: a call ends with exactly one outcome, which is a Response
\* Envelope, a thrown FetcherError, a rethrown transport error, or the
\* error thrown by one of its hooks; before it ends it has no outcome.
C5_OneOutcomeOfFour ==
    \A c \in CallIds :
        LET cr == calls[c]
        IN  /\ cr.pc # "done" => cr.result = NoValue /\ cr.error = NoValue
            /\ cr.pc = "done" =>
                  /\ (cr.result = NoValue) # (cr.error = NoValue)
                  /\ cr.result # NoValue => cr.result.tag = "FetcherResponse"
                  /\ cr.error # NoValue =>
                        \/ cr.error.tag = "FetcherError"
                        \/ cr.error \in TransportErrors
                        \/ cr.error \in HookErrors

\* a call has ended with the error thrown by one of its hooks
C5_Witness ==
    \E c \in CallIds :
        /\ calls[c].pc = "done"
        /\ calls[c].error \in HookErrors
        /\ calls[c].result = NoValue

\* the events of a call whose before-hooks hs run one after the other and
\* are followed by the dispatch
RECURSIVE BeforeEvents(_)
BeforeEvents(hs) ==
    IF hs = <<>> THEN <<>>
    ELSE BeforeEvents(SubSeq(hs, 1, Len(hs) - 1))
            \o <<Event("before", hs[Len(hs)], NoValue, ""),
                 Event("beforeDone", hs[Len(hs)], NoValue, "")>>

\* C6: within one call the before-hooks run in registration order, each
\* one completed before the next starts, and the request is dispatched
\* only after every registered before-hook has completed.
C6_BeforeHooksInOrder ==
    \A c \in CallIds :
        calls[c].pc # "idle" =>
            LET cr == calls[c]
                ideal == BeforeEvents(arrays[beforeHooks[cr.inst]])
                            \o <<Event("fetch", "", NoValue, "")>>
            IN  \A j \in DOMAIN cr.log :
                    IF j <= Len(ideal)
                    THEN cr.log[j] = ideal[j]
                    ELSE cr.log[j].ev \notin {"before", "beforeDone", "fetch"}

\* a request was dispatched after two different before-hooks had run
C6_Witness ==
    \E c \in Dispatched :
        LET hs == arrays[beforeHooks[calls[c].inst]]
        IN  /\ Len(hs) = 2
            /\ hs[1] # hs[2]
            /\ HooksDone(calls[c].log) = hs

\* C7: the outcome of a call is determined by the response alone, whatever
\* the after-hooks do: an ok response gives the envelope of its parsed
\* body, any other response the FetcherError of its fields.
C7_OutcomeFromResponseAlone ==
    \A c \in CallIds :
        (calls[c].pc = "done" /\ calls[c].res # NoValue) =>
            LET cr == calls[c]
            IN  IF cr.res.ok
                THEN /\ cr.result = FetcherResponse(ParseBody(cr.res), cr.res)
                     /\ cr.error = NoValue
                ELSE /\ cr.error = FetcherError(cr.res.statusText, cr.res.status,
                                                ParseBody(cr.res), cr.res.headers)
                     /\ cr.result = NoValue

\* the after-hook events of a log
AfterEvents(log) == SelectSeq(log, LAMBDA e : e.ev \in {"after", "afterDone"})

\* the events of the after-hooks hs run one after the other on (res, data)
RECURSIVE AfterEventsOf(_, _, _)
AfterEventsOf(hs, res, data) ==
    IF hs = <<>> THEN <<>>
    ELSE AfterEventsOf(SubSeq(hs, 1, Len(hs) - 1), res, data)
            \o <<Event("after", hs[Len(hs)], res, data),
                 Event("afterDone", hs[Len(hs)], res, data)>>

\* the call has classified its response: it returned or threw a FetcherError
Classified(cr) ==
    cr.pc = "done" /\ (cr.result # NoValue \/ cr.error.tag = "FetcherError")

\* the data the call handed to its caller
OutcomeData(cr) == IF cr.result # NoValue THEN cr.result.data ELSE cr.error.data

\* C8: the after-hooks run in registration order once the body is parsed
\* and before the response is classified, each with the raw response and
\* the parsed body the call hands out, also when the response is not ok.
C8_AfterHooksObserve ==
    \A c \in CallIds :
        LET cr == calls[c]
            seen == AfterEvents(cr.log)
        IN  /\ cr.pc \in {"idle", "inBefore", "fetching", "parsing"} => seen = <<>>
            /\ seen # <<>> =>
                  LET ideal == AfterEventsOf(arrays[afterHooks[cr.inst]],
                                             cr.res, ParseBody(cr.res))
                  IN  /\ Len(seen) <= Len(ideal)
                      /\ seen = SubSeq(ideal, 1, Len(seen))
            /\ Classified(cr) =>
                  /\ seen = AfterEventsOf(arrays[afterHooks[cr.inst]],
                                          cr.res, OutcomeData(cr))
                  /\ OutcomeData(cr) = ParseBody(cr.res)

\* a call threw the FetcherError of a failed response after its after-hooks
\* had been run with that response
C8_Witness ==
    \E c \in CallIds :
        /\ Classified(calls[c])
        /\ calls[c].error.tag = "FetcherError"
        /\ Len(arrays[afterHooks[calls[c].inst]]) = 2
        /\ Len(AfterEvents(calls[c].log)) = 4

\* C9: a response that is not ok makes the call throw the FetcherError
\* with the response's status, statusText, parsed body (null when it does
\* not parse) and headers, and no envelope is returned.
C9_NotOkThrowsFetcherError ==
    \A c \in CallIds :
        (calls[c].pc = "done" /\ calls[c].res # NoValue /\ ~calls[c].res.ok) =>
            /\ calls[c].error = FetcherError(calls[c].res.statusText,
                                             calls[c].res.status,
                                             ParseBody(calls[c].res),
                                             calls[c].res.headers)
            /\ calls[c].result = NoValue

\* C10: when the transport rejects, the call ends with that very error
\* value, not a FetcherError; nothing runs after the rejection, so no
\* after-hook is invoked and no second transport call is made.
C10_TransportErrorPropagates ==
    \A c \in CallIds :
        \A j \in DOMAIN calls[c].log :
            calls[c].log[j].ev = "rejected" =>
                /\ calls[c].pc = "done"
                /\ calls[c].error = calls[c].log[j].res
                /\ calls[c].error.tag # "FetcherError"
                /\ calls[c].result = NoValue
                /\ j = Len(calls[c].log)
                /\ AfterEvents(calls[c].log) = <<>>
                /\ Len(calls[c].dispatched) = 1

\* the transport rejected a call of an instance that has after-hooks
C10_Witness ==
    \E c \in CallIds :
        /\ calls[c].pc = "done"
        /\ calls[c].error \in TransportErrors
        /\ calls[c].log[Len(calls[c].log)].ev = "rejected"
        /\ arrays[afterHooks[calls[c].inst]] # <<>>

\* C11: an ok response whose body does not parse gives the envelope with
\* data = null and the response's status and headers; the parse failure is
\* not raised and the call does not end with an error.
C11_UnparseableOkIsSuccess ==
    \A c \in CallIds :
        (/\ calls[c].pc = "done"
         /\ calls[c].res # NoValue
         /\ calls[c].res.ok
         /\ ~calls[c].res.parseable) =>
            /\ calls[c].result = [tag |-> "FetcherResponse", data |-> Null,
                                  status |-> calls[c].res.status,
                                  headers |-> calls[c].res.headers]
            /\ calls[c].error = NoValue

\* the options a call dispatches, from its layers: the defaults and the
\* per-call options, the writes of the before-hooks it ran, then the
\* per-call headers once more
ExpectedInit(c) ==
    LET cr == calls[c]
        d == defaultOptions[cr.inst]
        w == HookWrites(HooksDone(cr.log))
    IN  [rest |-> Spread(Spread(d.rest, cr.options.rest), w.rest),
         headers |-> Spread(Spread(Spread(Spread("Content-Type" :>
                                                     "application/json",
                                                 OwnProps(d.headers)),
                                          OwnProps(cr.options.headers)),
                                   w.headers),
                            OwnProps(cr.options.headers))]

\* C12: a verb call issues at most one transport call; once all its
\* before-hooks have completed it has issued exactly one, to baseUrl + path,
\* with the verb's method and the merged headers and options.
C12_ExactlyOneDispatch ==
    \A c \in CallIds :
        LET cr == calls[c]
        IN  /\ Len(cr.dispatched) <= 1
            /\ (/\ cr.pc # "idle"
                /\ HooksDone(cr.log) = arrays[beforeHooks[cr.inst]]) =>
                   /\ Len(cr.dispatched) = 1
                   /\ \E p \in Paths :
                          cr.dispatched[1].url = baseUrl[cr.inst] \o p
                   /\ Sent(c).rest["method"] = cr.options.rest["method"]
                   /\ Sent(c) = ExpectedInit(c)

\* a request went out to a client with a base URL after two before-hooks
C12_Witness ==
    \E c \in CallIds :
        /\ Len(calls[c].dispatched) = 1
        /\ calls[c].dispatched[1].url = "https://test.com/test"
        /\ Len(HooksDone(calls[c].log)) = 2
        /\ calls[c].pc = "done"

\* C18: parseError gives {message, status, data, headers} of the response
\* for the FetcherError the pipeline threw, and undefined for any other
\* error of a call (a transport error or the error of a hook).
C18_ParseErrorNarrows ==
    \A c \in CallIds :
        calls[c].parsed # NoValue =>
            LET cr == calls[c]
            IN  IF cr.error.tag = "FetcherError"
                THEN cr.parsed = [message |-> cr.res.statusText,
                                  status |-> cr.res.status,
                                  data |-> ParseBody(cr.res),
                                  headers |-> cr.res.headers]
                ELSE /\ cr.error \in TransportErrors \cup HookErrors
                     /\ cr.parsed = Undefined

\* parseError has narrowed the FetcherError of a 404 response
C18_Witness ==
    \E c \in CallIds :
        /\ calls[c].parsed # NoValue
        /\ calls[c].parsed # Undefined
        /\ calls[c].parsed.status = 404
        /\ calls[c].parsed.message = "Not Found"

\* C19: a before-hook that throws ends the call there: no later before-hook
\* is invoked, nothing is dispatched, no after-hook runs, and the call
\* rejects with the hook's own error.
C19_BeforeHookThrowEndsCall ==
    \A c \in CallIds :
        \A j \in DOMAIN calls[c].log :
            (calls[c].log[j].ev = "before"
                /\ BeforeHookThrows(calls[c].log[j].hook)) =>
                /\ j = Len(calls[c].log)
                /\ calls[c].dispatched = <<>>
                /\ calls[c].res = NoValue
                /\ \/ calls[c].pc = "inBefore"
                   \/ /\ calls[c].pc = "done"
                      /\ calls[c].error = HookError(calls[c].log[j].hook)
                      /\ calls[c].error.tag # "FetcherError"
                      /\ calls[c].result = NoValue

\* a call ended by a throwing before-hook that was followed by another
\* before-hook, on a client that has after-hooks
C19_Witness ==
    \E c \in CallIds :
        /\ calls[c].pc = "done"
        /\ calls[c].error = HookError("hookThrow")
        /\ arrays[beforeHooks[calls[c].inst]] = <<"hookThrow", "hookForm">>
        /\ arrays[afterHooks[calls[c].inst]] # <<>>

(***************************************************************************)
(* Properties of the hook registry.                                        *)
(***************************************************************************)
\* the hook lists of instance i as they are now
BeforeList(i) == arrays[beforeHooks[i]]
AfterList(i) == arrays[afterHooks[i]]

\* the hooks call c has invoked so far
Invoked(c) ==
    {calls[c].log[j].hook :
        j \in {k \in DOMAIN calls[c].log :
                  calls[c].log[k].ev \in {"before", "after"}}}

\* the after-hooks that have completed, in the order they ran
AfterHooksDone(log) ==
    LET done == SelectSeq(log, LAMBDA e : e.ev = "afterDone")
    IN  [k \in DOMAIN done |-> done[k].hook]

\* new holds the entries of old that are not h, in the order of old
IsWithout(new, old, h) ==
    LET keep == {k \in DOMAIN old : old[k] # h}
    IN  /\ Len(new) = Cardinality(keep)
        /\ \A k \in keep : new[Cardinality({j \in keep : j <= k})] = old[k]

\* the calls on instance i that have been started
StartedOn(i) == {c \in CallIds : calls[c].pc # "idle" /\ calls[c].inst = i}

\* C13: after removeBeforeHook(h) / removeAfterHook(h) the list holds the
\* entries that are not h in their old order (all of them when h was not
\* registered), the other list is as it was, and no call started since
\* invokes h.
C13_RemoveDropsEveryEntry ==
    lastOp.op \in {"removeBeforeHook", "removeAfterHook"} =>
        LET i == lastOp.inst
            h == lastOp.hook
            old == lastOp.lists[i]
        IN  /\ IF lastOp.op = "removeBeforeHook"
               THEN /\ IsWithout(BeforeList(i), old.before, h)
                    /\ AfterList(i) = old.after
               ELSE /\ IsWithout(AfterList(i), old.after, h)
                    /\ BeforeList(i) = old.before
            /\ (\A k \in DOMAIN old.before : old.before[k] # h)
                   => BeforeList(i) = old.before
            /\ (\A k \in DOMAIN old.after : old.after[k] # h)
                   => AfterList(i) = old.after
            /\ \A c \in StartedOn(i) : h \notin Invoked(c)

\* a call has returned after a hook was removed from in front of another
C13_Witness ==
    /\ lastOp.op = "removeBeforeHook"
    /\ lastOp.hook = "hookThrow"
    /\ lastOp.lists[lastOp.inst].before = <<"hookThrow", "hookForm">>
    /\ \E c \in StartedOn(lastOp.inst) :
           /\ calls[c].result # NoValue
           /\ HooksDone(calls[c].log) = <<"hookForm">>

\* C14: after clearHooks() both lists of the instance are empty, whatever
\* they held, and no call started since invokes a hook.
C14_ClearEmptiesBoth ==
    lastOp.op = "clearHooks" =>
        /\ BeforeList(lastOp.inst) = <<>>
        /\ AfterList(lastOp.inst) = <<>>
        /\ \A c \in StartedOn(lastOp.inst) : Invoked(c) = {}

\* a call has returned after both non-empty lists were cleared
C14_Witness ==
    /\ lastOp.op = "clearHooks"
    /\ lastOp.lists[lastOp.inst].before # <<>>
    /\ lastOp.lists[lastOp.inst].after # <<>>
    /\ \E c \in StartedOn(lastOp.inst) : calls[c].result # NoValue

C16_RegistryIsLocal ==
    lastOp.op # "none" =>
        /\ \A j \in Instances \ {lastOp.inst} :
               /\ BeforeList(j) = lastOp.lists[j].before
               /\ AfterList(j) = lastOp.lists[j].after
        /\ Contents(callerRefs.onBefore) = lastOp.caller.onBefore
        /\ Contents(callerRefs.onAfter) = lastOp.caller.onAfter

(***************************************************************************)
(* Properties of calls in flight.                                          *)
(***************************************************************************)
\* C17: for every interleaving of two calls on one instance, the request a
\* call dispatches is made of its own layers only (the defaults, its own
\* per-call options, the writes of the before-hooks it ran itself), and no
\* step changes the default options or the per-call options of a call.
C17_CallsAreIsolated ==
    /\ [](\A c \in Dispatched : Sent(c) = ExpectedInit(c))
    /\ [][/\ defaultOptions' = defaultOptions
          /\ \A c \in CallIds :
                 (calls[c].pc # "idle" /\ calls'[c].pc # "idle")
                     => calls'[c].options = calls[c].options]_vars

\* two calls are in flight at once; one has run a before-hook that the
\* other has not, and their requests differ by that hook's writes
C17_Witness ==
    \E c, d \in CallIds :
        /\ calls[c].pc = "fetching"
        /\ calls[d].pc = "fetching"
        /\ calls[c].options = calls[d].options
        /\ HooksDone(calls[c].log) = <<"hookForm">>
        /\ HooksDone(calls[d].log) = <<>>
        /\ "credentials" \in DOMAIN Sent(c).rest
        /\ "credentials" \notin DOMAIN Sent(d).rest

\* the calls that were suspended in a hook loop of the instance when the
\* last registry operation was made on it
InBeforeLoop == {c \in CallIds : /\ lastOp.phase[c] = "inBefore"
                                 /\ calls[c].inst = lastOp.inst}
InAfterLoop == {c \in CallIds : /\ lastOp.phase[c] = "inAfter"
                                /\ calls[c].inst = lastOp.inst}

\* the calls that had not been started then and have been since
StartedSince == {c \in StartedOn(lastOp.inst) : lastOp.phase[c] = "idle"}

\* what the before-loop (the after-loop) of call c has run once it is over
BeforeLoopRan(c, hs) ==
    calls[c].dispatched # <<>> => HooksDone(calls[c].log) = hs
AfterLoopRan(c, hs) ==
    Classified(calls[c]) => AfterHooksDone(calls[c].log) = hs

\* C20 as stated: a call suspended in its hook loop runs the hook that an
\* add appends meanwhile, and still runs the hooks that a remove or a clear
\* drops meanwhile.
C20_LoopSeesEveryAdd ==
    /\ \A c \in InBeforeLoop :
           BeforeLoopRan(c, IF lastOp.op = "addBeforeHook"
                            THEN Append(lastOp.loops[c], lastOp.hook)
                            ELSE lastOp.loops[c])
    /\ \A c \in InAfterLoop :
           AfterLoopRan(c, IF lastOp.op = "addAfterHook"
                           THEN Append(lastOp.loops[c], lastOp.hook)
                           ELSE lastOp.loops[c])

\* C20: a call suspended in its hook loop runs the hook that an add
\* appends meanwhile when its loop iterates the list the instance holds
\* (no remove or clear has replaced that list since the loop began), and
\* does not run it otherwise; it still runs the hooks that a remove or a
\* clear drops meanwhile; a call started after the operation runs the list
\* as the operation left it.
C20_LoopSeesAddToItsArray ==
    /\ \A c \in InBeforeLoop :
           BeforeLoopRan(c, IF lastOp.op = "addBeforeHook" /\ lastOp.live[c]
                            THEN Append(lastOp.loops[c], lastOp.hook)
                            ELSE lastOp.loops[c])
    /\ \A c \in InAfterLoop :
           AfterLoopRan(c, IF lastOp.op = "addAfterHook" /\ lastOp.live[c]
                           THEN Append(lastOp.loops[c], lastOp.hook)
                           ELSE lastOp.loops[c])
    /\ lastOp.op # "none" =>
           \A c \in StartedSince :
               /\ BeforeLoopRan(c, BeforeList(lastOp.inst))
               /\ AfterLoopRan(c, AfterList(lastOp.inst))

\* a call suspended in the first of two before-hooks has run the second
\* one although it was removed meanwhile
C20_Witness ==
    /\ lastOp.op = "removeBeforeHook"
    /\ BeforeList(lastOp.inst) = <<>>
    /\ \E c \in InBeforeLoop :
           /\ lastOp.loops[c] = <<"hookForm", "hookForm">>
           /\ calls[c].result # NoValue
           /\ HooksDone(calls[c].log) = <<"hookForm", "hookForm">>

(***************************************************************************)
(* Properties of the verb methods.                                         *)
(***************************************************************************)
\* the HTTP method that belongs to the verb whose path call c was given
MethodOfVerb ==
    [get |-> "GET", post |-> "POST", put |-> "PUT", delete |-> "DELETE"]
VerbMethod(c) ==
    MethodOfVerb[CHOOSE v \in DOMAIN VerbPath :
                     calls[c].url = baseUrl[calls[c].inst] \o VerbPath[v]]

\* a before-hook that has completed in call c has reassigned the method
MethodReassigned(c) ==
    \E k \in DOMAIN HooksDone(calls[c].log) :
        HooksDone(calls[c].log)[k] = "hookMethod"

\* C21: the pending request handed to a before-hook carries the method of
\* the verb called, whatever method the per-call options or the defaults
\* name, until a before-hook reassigns it; the dispatched method is the
\* verb's method, or the one a before-hook assigned.
C21_VerbFixesMethod ==
    \A c \in CallIds :
        /\ (calls[c].pc = "inBefore" /\ ~MethodReassigned(c))
               => calls[c].mergedOptions.rest["method"] = VerbMethod(c)
        /\ calls[c].dispatched # <<>>
               => Sent(c).rest["method"] =
                      IF MethodReassigned(c) THEN "PATCH" ELSE VerbMethod(c)

\* post was called with a method in its options on a client whose defaults
\* name another one, a before-hook ran, and POST was dispatched
C21_Witness ==
    \E c \in CallIds :
        /\ calls[c].dispatched # <<>>
        /\ calls[c].url = "https://test.com/post"
        /\ defaultOptions[calls[c].inst].rest["method"] = "HEAD"
        /\ HooksDone(calls[c].log) = <<"hookForm">>
        /\ Sent(c).rest["method"] = "POST"
        /\ Sent(c).rest["body"] = "{data:test}"

(***************************************************************************)
(* Properties of the client of version 1.                                  *)
(***************************************************************************)
\* the sources of the headers of the request sent last, the earliest
\* first: the constructor's entries, those of each hook as registered at the
\* time of the call, the per-request entries when the argument was given
V1Sources ==
    <<v1.ctorInit>>
        \o [k \in DOMAIN v1.call.hooks |-> V1HookInit(v1.call.hooks[k])]
        \o (IF v1.call.arg = NoValue THEN <<>> ELSE <<v1.call.arg.init>>)

\* two header names that differ in letter case only
SameName(a, b) == HeaderName(a) = HeaderName(b)

\* source src names the header k
Names(src, k) == \E j \in DOMAIN src : SameName(src[j][1], k)

\* C22: in the client of version 1 every header named by the constructor,
\* by an onBefore hook or by the per-request headers is sent once, with the
\* value of the last source (constructor, hooks in registration order,
\* per-request) that names it in any letter case, and nothing else is sent.
C22_V1HeadersAccumulate ==
    v1.sent # NoValue =>
        /\ \A s \in DOMAIN V1Sources : \A j \in DOMAIN V1Sources[s] :
               LET k == V1Sources[s][j][1]
                   last == CHOOSE t \in DOMAIN V1Sources :
                               /\ Names(V1Sources[t], k)
                               /\ \A u \in DOMAIN V1Sources :
                                      Names(V1Sources[u], k) => u <= t
               IN  /\ HeaderName(k) \in DOMAIN v1.sent.headers
                   /\ \E i \in DOMAIN V1Sources[last] :
                          /\ SameName(V1Sources[last][i][1], k)
                          /\ v1.sent.headers[HeaderName(k)] =
                                 V1Sources[last][i][2]
        /\ \A n \in DOMAIN v1.sent.headers :
               \E s \in DOMAIN V1Sources : Names(V1Sources[s], n)

\* a per-request Content-Type has overridden the constructor's and a
\* hook's, and the hook's other header was kept
C22_Witness ==
    /\ v1.sent # NoValue
    /\ v1.ctorInit = << <<"Content-Type", "application/json">> >>
    /\ v1.call.hooks = <<"v1Form", "v1Token">>
    /\ v1.call.arg = V1HeadersArg(<< <<"Content-Type", "text/plain">> >>)
    /\ v1.sent.headers["content-type"] = "text/plain"
    /\ v1.sent.headers["x-another-test"] = "adefinitlybettertoken"

====
